---- MODULE Spec2Model ----
(***************************************************************************)
(* A model of efficientdet/keras/utils_keras.py: the three Keras layers    *)
(* ActivationFn, BatchNormAct and DropConnect.                             *)
(*                                                                         *)
(* The state is one harness: the layer produced by the most recent         *)
(* constructor expression (NoLayer when that constructor raised), the      *)
(* arguments that constructor was given, the exception of the most recent  *)
(* operation, and the record of the most recent call on the layer.         *)
(* Constructors and methods are operators from their arguments to their    *)
(* outcome; the actions draw the arguments from small sets.                *)
(*                                                                         *)
(* Framework primitives this file only names (sigmoid, the fused swish,    *)
(* the two batch-normalization classes) are kept uninterpreted: applying   *)
(* one yields a term that records the primitive and its operands.          *)
(***************************************************************************)
EXTENDS Integers, Sequences, FiniteSets

VARIABLES layer, ctor, raised, call

vars == <<layer, ctor, raised, call>>

(***************************************************************************)
(* Bounds and input sets.                                                  *)
(***************************************************************************)

\* Longest flattened tensor given to ActivationFn.call and BatchNormAct.call.
MaxLen == 3

\* Largest batch given to DropConnect.call.
MaxBatch == 2

\* Element values: below the rectifier, inside [0, 6], above the cap.
Vals == {-2, 3, 9}

\* Element values of the per-sample rows given to DropConnect.call.
DropVals == {-2, 3}

\* Python's None, and how str.format / an f-string renders a value.
None == "<None>"

Format(v) == IF v = None THEN "None" ELSE v

Supported == {"swish", "swish_native", "relu", "relu6"}

\* Tags tried at construction: the supported ones, an unknown one, None.
ActTypes == Supported \cup {"gelu", None}

\* (momentum, epsilon, name, parent_name): the defaults and one other choice.
Hypers ==
  { [momentum |-> "0.99", epsilon |-> "1e-3", name |-> None, parent_name |-> None],
    [momentum |-> "0.9", epsilon |-> "1e-4", name |-> "bn", parent_name |-> "stem"] }

DataFormats == {"channels_first", "channels_last"}

\* Rationals <<numerator, denominator>>: survival probabilities in (0, 1]
\* and uniform draws in [0, 1).
SurvivalProbs == {<<1, 4>>, <<1, 2>>, <<3, 4>>, <<1, 1>>}

Uniforms == {<<0, 1>>, <<1, 2>>}

\* A concrete tensor: flattened elements (ActivationFn, BatchNormAct) ...
Tensor(data) == [kind |-> "tensor", data |-> data]

FlatTensors == UNION { { Tensor(d) : d \in [1..n -> Vals] } : n \in 1..MaxLen }

\* ... or a batch of per-sample rows (DropConnect).
Rows == DropVals \X DropVals

BatchTensors == UNION { { Tensor(d) : d \in [1..b -> Rows] } : b \in 1..MaxBatch }

Draws(b) == [1..b -> Uniforms]

(***************************************************************************)
(* Outcomes of a constructor or a method.                                  *)
(***************************************************************************)

NoLayer == [class |-> "none"]

NoExc == [type |-> "none"]

NoCall == [op |-> "none"]

NoCtor == [class |-> "none"]

Return(v) == [ok |-> TRUE, val |-> v]

Raise(e) == [ok |-> FALSE, exc |-> e]

\* ValueError('Unsupported act_type {}'.format(act_type))
ValueError(act_type) ==
  [type |-> "ValueError", msg |-> <<"Unsupported act_type ", Format(act_type)>>]

\* self.act looked up on an object that never bound it.
AttributeError == [type |-> "AttributeError"]

(***************************************************************************)
(* ActivationFn                                                            *)
(***************************************************************************)

Unbound == "<unbound>"

\* Mutants of SelectAct: an else branch that falls back to relu instead of
\* raising; 'relu6' bound to the uncapped rectifier.
SelectActFallback(act_type) ==
  CASE act_type = "swish" -> "tf.nn.swish"
    [] act_type = "swish_native" -> "x * tf.sigmoid(x)"
    [] act_type = "relu" -> "tf.nn.relu"
    [] act_type = "relu6" -> "tf.nn.relu6"
    [] OTHER -> "tf.nn.relu"

SelectActUncapped(act_type) ==
  CASE act_type = "swish" -> "tf.nn.swish"
    [] act_type = "swish_native" -> "x * tf.sigmoid(x)"
    [] act_type = "relu" -> "tf.nn.relu"
    [] act_type = "relu6" -> "tf.nn.relu"
    [] OTHER -> Unbound

\* The if/elif chain of __init__: the function bound to self.act, or Unbound
\* when the chain reaches its else branch.
SelectAct(act_type) ==
  CASE act_type = "swish" -> "tf.nn.swish"
    [] act_type = "swish_native" -> "x * tf.sigmoid(x)"
    [] act_type = "relu" -> "tf.nn.relu"
    [] act_type = "relu6" -> "tf.nn.relu6"
    [] OTHER -> Unbound

ActivationFnInit(act_type, name) ==
  IF SelectAct(act_type) = Unbound
    THEN Raise(ValueError(act_type))
    ELSE Return([class |-> "ActivationFn",
                 act_type |-> act_type,
                 act |-> SelectAct(act_type),
                 layer |-> [class |-> "Lambda", name |-> name]])

Max(a, b) == IF a >= b THEN a ELSE b

Min(a, b) == IF a <= b THEN a ELSE b

\* One element through the function bound to self.act.  sigmoid and the
\* fused swish stay uninterpreted.
ApplyElem(act, x) ==
  CASE act = "tf.nn.swish" -> [op |-> "swish", x |-> x]
    [] act = "x * tf.sigmoid(x)" ->
         [op |-> "mul", x |-> x, y |-> [op |-> "sigmoid", x |-> x]]
    [] act = "tf.nn.relu" -> Max(x, 0)
    [] act = "tf.nn.relu6" -> Min(Max(x, 0), 6)

\* self.act(x) on a tensor value: elementwise on a concrete tensor, a term
\* on the output of an uninterpreted primitive.
ApplyAct(act, v) ==
  IF v.kind = "tensor"
    THEN [kind |-> "tensor",
          data |-> [i \in DOMAIN v.data |-> ApplyElem(act, v.data[i])]]
    ELSE [kind |-> "activated", act |-> act, of |-> v]

\* call: self.layer(features), the Lambda of lambda x: self.act(x).
ActivationFnCall(self, features) ==
  IF self.act = Unbound
    THEN [self |-> self, out |-> Raise(AttributeError)]
    ELSE [self |-> self, out |-> Return(ApplyAct(self.act, features))]

(***************************************************************************)
(* BatchNormAct                                                            *)
(***************************************************************************)

\* Mutant of GammaInitializer: the two branches exchanged.
GammaInitializerSwapped(init_zero) ==
  IF init_zero THEN "tf.ones_initializer()" ELSE "tf.zeros_initializer()"

GammaInitializer(init_zero) ==
  IF init_zero THEN "tf.zeros_initializer()" ELSE "tf.ones_initializer()"

\* Mutant of Axis: the channels_last index for either layout.
AxisAlwaysLast(data_format) == 3

Axis(data_format) == IF data_format = "channels_first" THEN 1 ELSE 3

\* f'{parent_name}/{name}'
QualifiedName(parent_name, name) == <<Format(parent_name), "/", Format(name)>>

\* The keyword arguments of the TpuBatchNormalization(...) expression.
TpuKwargs(a, axis, gamma_initializer) ==
  [axis |-> axis,
   momentum |-> a.momentum,
   epsilon |-> a.epsilon,
   center |-> TRUE,
   scale |-> TRUE,
   gamma_initializer |-> gamma_initializer,
   name |-> QualifiedName(a.parent_name, a.name)]

\* The keyword arguments of the BatchNormalization(...) expression.
GeneralKwargs(a, axis, gamma_initializer) ==
  [axis |-> axis,
   momentum |-> a.momentum,
   epsilon |-> a.epsilon,
   center |-> TRUE,
   scale |-> TRUE,
   gamma_initializer |-> gamma_initializer,
   name |-> QualifiedName(a.parent_name, a.name)]

\* Mutant of BuildNorm: the TPU class whenever use_tpu is set, training or not.
BuildNormTpuOnly(a, axis, gamma_initializer) ==
  IF a.use_tpu
    THEN [class |-> "TpuBatchNormalization",
          kwargs |-> TpuKwargs(a, axis, gamma_initializer)]
    ELSE [class |-> "BatchNormalization",
          kwargs |-> GeneralKwargs(a, axis, gamma_initializer)]

\* self.layer: the collaborator chosen by is_training_bn and use_tpu.
BuildNorm(a, axis, gamma_initializer) ==
  IF a.is_training_bn /\ a.use_tpu
    THEN [class |-> "TpuBatchNormalization",
          kwargs |-> TpuKwargs(a, axis, gamma_initializer)]
    ELSE [class |-> "BatchNormalization",
          kwargs |-> GeneralKwargs(a, axis, gamma_initializer)]

\* Mutant of BuildAct: None taken to mean "no activation".
BuildActNoneOk(act_type, parent_name) ==
  IF act_type = None
    THEN Return([class |-> "ActivationFn",
                 act_type |-> None,
                 act |-> Unbound,
                 layer |-> [class |-> "Lambda", name |-> parent_name]])
    ELSE ActivationFnInit(act_type, parent_name)

\* self.act = ActivationFn(act_type, name=parent_name)
BuildAct(act_type, parent_name) == ActivationFnInit(act_type, parent_name)

\* __init__: the collaborator is built before the activation, whose
\* constructor error leaves __init__ and no object behind.
BatchNormActInit(a) ==
  LET gamma_initializer == GammaInitializer(a.init_zero)
      axis == Axis(a.data_format)
      norm == BuildNorm(a, axis, gamma_initializer)
      act == BuildAct(a.act_type, a.parent_name)
  IN IF ~act.ok
       THEN Raise(act.exc)
       ELSE Return([class |-> "BatchNormAct",
                    name |-> a.parent_name,
                    act_type |-> a.act_type,
                    training |-> a.is_training_bn,
                    gamma_initializer |-> gamma_initializer,
                    axis |-> axis,
                    layer |-> norm,
                    act |-> act.val])

\* The collaborator's apply(inputs, training=...): uninterpreted, a term
\* that records the collaborator, the flag and the operand.
NormApply(norm, inputs, training) ==
  [kind |-> "normalized", by |-> norm, training |-> training, of |-> inputs]

\* Mutant of BatchNormActCall: the activation applied first, the
\* normalization to its result.
BatchNormActCallActFirst(self, inputs) ==
  LET a == ActivationFnCall(self.act, inputs) IN
    IF ~a.out.ok
      THEN [self |-> self, trace |-> <<>>, out |-> a.out]
      ELSE LET x == NormApply(self.layer, a.out.val, self.training) IN
        [self |-> self,
         trace |-> << [callee |-> "self.act.call", target |-> self.act,
                       inputs |-> inputs, training |-> None,
                       result |-> a.out.val],
                      [callee |-> "self.layer.apply", target |-> self.layer,
                       inputs |-> a.out.val, training |-> self.training,
                       result |-> x] >>,
         out |-> Return(x)]

\* Mutant of BatchNormActCall: the call flips the stored training flag.
BatchNormActCallFlipsTraining(self, inputs) ==
  LET x == NormApply(self.layer, inputs, self.training)
      a == ActivationFnCall(self.act, x)
  IN [self |-> [self EXCEPT !.training = ~@],
      trace |-> << [callee |-> "self.layer.apply", target |-> self.layer,
                    inputs |-> inputs, training |-> self.training,
                    result |-> x],
                   [callee |-> "self.act.call", target |-> self.act,
                    inputs |-> x, training |-> None,
                    result |-> IF a.out.ok THEN a.out.val ELSE None] >>,
      out |-> a.out]

\* call: x = self.layer.apply(inputs, training=self.training);
\*       x = self.act.call(x); return x
BatchNormActCall(self, inputs) ==
  LET x == NormApply(self.layer, inputs, self.training)
      a == ActivationFnCall(self.act, x)
  IN [self |-> self,
      trace |-> << [callee |-> "self.layer.apply", target |-> self.layer,
                    inputs |-> inputs, training |-> self.training,
                    result |-> x],
                   [callee |-> "self.act.call", target |-> self.act,
                    inputs |-> x, training |-> None,
                    result |-> IF a.out.ok THEN a.out.val ELSE None] >>,
      out |-> a.out]

(***************************************************************************)
(* DropConnect                                                             *)
(***************************************************************************)

RatAdd(p, q) == <<p[1] * q[2] + q[1] * p[2], p[2] * q[2]>>

\* floor of a rational with a positive denominator
RatFloor(p) == p[1] \div p[2]

\* tf.div(x, p) for an integer x: the rational x / p
RatDiv(x, p) == <<x * p[2], p[1]>>

RatScale(p, k) == <<p[1] * k, p[2]>>

\* __init__ stores survival_prob; the def call inside it is a local
\* function of the constructor and is bound to nothing.
DropConnectInit(survival_prob, name) ==
  Return([class |-> "DropConnect", name |-> name,
          survival_prob |-> survival_prob])

\* The function defined inside __init__, which nothing invokes: one draw
\* u[i] per batch element, mask floor(survival_prob + u[i]), output
\* (inputs / survival_prob) * mask with the mask broadcast over the row.
NestedCall(self, inputs, u) ==
  LET random_tensor == [i \in DOMAIN inputs.data |-> RatAdd(self.survival_prob, u[i])]
      binary_tensor == [i \in DOMAIN inputs.data |-> RatFloor(random_tensor[i])]
  IN [kind |-> "tensor",
      data |-> [i \in DOMAIN inputs.data |->
                 [j \in DOMAIN inputs.data[i] |->
                    RatScale(RatDiv(inputs.data[i][j], self.survival_prob),
                             binary_tensor[i])]]]

\* Mutant of DropConnectCall: the input times floor(u), the survival
\* probability left out of the mask.
DropConnectCallFloorOnly(self, inputs, u) ==
  [self |-> self,
   out |-> Return([kind |-> "tensor",
                   data |-> [i \in DOMAIN inputs.data |->
                              [j \in DOMAIN inputs.data[i] |->
                                 inputs.data[i][j] * RatFloor(u[i])]]])]

\* call: the class defines none, so the one inherited from
\* tf.keras.layers.Layer runs, which returns its inputs.  u is what the
\* random source would have yielded; nothing reads it.
DropConnectCall(self, inputs, u) == [self |-> self, out |-> Return(inputs)]

(***************************************************************************)
(* The harness: construct a layer, call it any number of times.            *)
(***************************************************************************)

Init ==
  /\ layer = NoLayer
  /\ ctor = NoCtor
  /\ raised = NoExc
  /\ call = NoCall

\* layer = ActivationFn(act_type)
NewActivationFn ==
  \E act_type \in ActTypes :
    LET r == ActivationFnInit(act_type, "activation_fn") IN
      /\ ctor' = [class |-> "ActivationFn", act_type |-> act_type]
      /\ layer' = IF r.ok THEN r.val ELSE NoLayer
      /\ raised' = IF r.ok THEN NoExc ELSE r.exc
      /\ call' = NoCall

\* layer.call(features)
CallActivationFn ==
  /\ layer.class = "ActivationFn"
  /\ \E features \in FlatTensors :
       LET r == ActivationFnCall(layer, features) IN
         /\ layer' = r.self
         /\ raised' = IF r.out.ok THEN NoExc ELSE r.out.exc
         /\ call' = [op |-> "ActivationFn.call",
                     inputs |-> features,
                     trace |-> <<>>,
                     ok |-> r.out.ok,
                     ret |-> IF r.out.ok THEN r.out.val ELSE None]
         /\ UNCHANGED ctor

\* layer = BatchNormAct(is_training_bn, act_type, init_zero, data_format,
\*                      momentum, epsilon, use_tpu, name, parent_name)
NewBatchNormAct ==
  \E is_training_bn \in BOOLEAN, act_type \in ActTypes, init_zero \in BOOLEAN,
     data_format \in DataFormats, use_tpu \in BOOLEAN, h \in Hypers :
    LET a == [class |-> "BatchNormAct",
              is_training_bn |-> is_training_bn,
              act_type |-> act_type,
              init_zero |-> init_zero,
              data_format |-> data_format,
              momentum |-> h.momentum,
              epsilon |-> h.epsilon,
              use_tpu |-> use_tpu,
              name |-> h.name,
              parent_name |-> h.parent_name]
        r == BatchNormActInit(a)
    IN /\ ctor' = a
       /\ layer' = IF r.ok THEN r.val ELSE NoLayer
       /\ raised' = IF r.ok THEN NoExc ELSE r.exc
       /\ call' = NoCall

\* layer.call(inputs)
CallBatchNormAct ==
  /\ layer.class = "BatchNormAct"
  /\ \E inputs \in FlatTensors :
       LET r == BatchNormActCall(layer, inputs) IN
         /\ layer' = r.self
         /\ raised' = IF r.out.ok THEN NoExc ELSE r.out.exc
         /\ call' = [op |-> "BatchNormAct.call",
                     inputs |-> inputs,
                     trace |-> r.trace,
                     ok |-> r.out.ok,
                     ret |-> IF r.out.ok THEN r.out.val ELSE None]
         /\ UNCHANGED ctor

\* layer = DropConnect(survival_prob)
NewDropConnect ==
  \E survival_prob \in SurvivalProbs :
    LET r == DropConnectInit(survival_prob, "drop_connect") IN
      /\ ctor' = [class |-> "DropConnect", survival_prob |-> survival_prob]
      /\ layer' = IF r.ok THEN r.val ELSE NoLayer
      /\ raised' = IF r.ok THEN NoExc ELSE r.exc
      /\ call' = NoCall

\* layer.call(inputs), with u the next values of the random source
CallDropConnect ==
  /\ layer.class = "DropConnect"
  /\ \E inputs \in BatchTensors :
       \E u \in Draws(Len(inputs.data)) :
         LET r == DropConnectCall(layer, inputs, u) IN
           /\ layer' = r.self
           /\ raised' = IF r.out.ok THEN NoExc ELSE r.out.exc
           /\ call' = [op |-> "DropConnect.call",
                       inputs |-> inputs,
                       u |-> u,
                       trace |-> <<>>,
                       ok |-> r.out.ok,
                       ret |-> IF r.out.ok THEN r.out.val ELSE None]
           /\ UNCHANGED ctor

Next ==
  \/ NewActivationFn
  \/ CallActivationFn
  \/ NewBatchNormAct
  \/ CallBatchNormAct
  \/ NewDropConnect
  \/ CallDropConnect

Spec == Init /\ [][Next]_vars

(***************************************************************************)
(* Properties.                                                             *)
(***************************************************************************)

\* C1: constructing ActivationFn with a tag outside the four supported ones
\* raises, at construction, a ValueError whose message carries the tag, and
\* leaves no object; a call on a constructed ActivationFn never raises and
\* returns a tensor.
ThmC1_UnknownTagRaisesAtConstruction ==
  /\ (ctor.class = "ActivationFn" /\ ctor.act_type \notin Supported) =>
       /\ layer = NoLayer
       /\ call = NoCall
       /\ raised.type = "ValueError"
       /\ raised.msg = <<"Unsupported act_type ", Format(ctor.act_type)>>
  /\ (ctor.class = "ActivationFn" /\ ctor.act_type \in Supported) =>
       /\ layer.class = "ActivationFn"
       /\ raised = NoExc
       /\ call.op = "ActivationFn.call" => (call.ok /\ call.ret.kind = "tensor")

WitC1_GeluRejected ==
  /\ ctor.class = "ActivationFn"
  /\ ctor.act_type = "gelu"
  /\ raised.type = "ValueError"
  /\ raised.msg[2] = "gelu"

\* C2: DropConnect.call returns (inputs / survival_prob) * mask, where
\* mask = floor(survival_prob + u) per batch element, broadcast over the
\* row: the output NestedCall computes.
CexC2_CallMasksAndRescales ==
  call.op = "DropConnect.call" =>
    LET want == NestedCall(layer, call.inputs, call.u).data IN
      /\ call.ok
      /\ DOMAIN call.ret.data = DOMAIN want
      /\ \A i \in DOMAIN want :
           \A j \in DOMAIN want[i] :
             call.ret.data[i][j] * want[i][j][2] = want[i][j][1]

\* C3: a DropConnect with survival_prob = 1 returns its input unchanged,
\* whatever the input and whatever the random source yields.
ThmC3_SurvivalOneIsIdentity ==
  (call.op = "DropConnect.call" /\ layer.survival_prob = <<1, 1>>) =>
    (call.ok /\ call.ret = call.inputs)

WitC3_TwoSamplesTwoDraws ==
  /\ call.op = "DropConnect.call"
  /\ layer.survival_prob = <<1, 1>>
  /\ Len(call.inputs.data) = 2
  /\ call.u[1] # call.u[2]
  /\ call.ret = call.inputs

\* C4: the collaborator is TpuBatchNormalization exactly when is_training_bn
\* and use_tpu are both set and BatchNormalization otherwise, and either one
\* is given axis, momentum, epsilon, center=True, scale=True, the gamma
\* initializer and the name '<parent_name>/<name>'.
ThmC4_TpuIffTrainingAndTpu ==
  layer.class = "BatchNormAct" =>
    /\ layer.layer.class =
         (IF ctor.is_training_bn /\ ctor.use_tpu
            THEN "TpuBatchNormalization" ELSE "BatchNormalization")
    /\ layer.layer.kwargs =
         [axis |-> layer.axis,
          momentum |-> ctor.momentum,
          epsilon |-> ctor.epsilon,
          center |-> TRUE,
          scale |-> TRUE,
          gamma_initializer |-> layer.gamma_initializer,
          name |-> <<Format(ctor.parent_name), "/", Format(ctor.name)>>]

WitC4_TpuChosen ==
  /\ layer.class = "BatchNormAct"
  /\ ctor.is_training_bn
  /\ ctor.use_tpu
  /\ layer.layer.class = "TpuBatchNormalization"
  /\ layer.layer.kwargs.name = <<"stem", "/", "bn">>

\* C5: init_zero picks the gamma initializer the collaborator receives,
\* zeros when set and ones when not, on the TPU and the general path and
\* for either data_format.
ThmC5_InitZeroPicksGamma ==
  layer.class = "BatchNormAct" =>
    layer.layer.kwargs.gamma_initializer =
      (IF ctor.init_zero THEN "tf.zeros_initializer()" ELSE "tf.ones_initializer()")

WitC5_ZerosOnTpuPath ==
  /\ layer.class = "BatchNormAct"
  /\ ctor.init_zero
  /\ layer.layer.class = "TpuBatchNormalization"
  /\ layer.layer.kwargs.gamma_initializer = "tf.zeros_initializer()"

\* C6: an ActivationFn built with 'relu6' maps each element x to
\* min(max(x, 0), 6) and returns as many elements as it was given.
ThmC6_Relu6Clamps ==
  (call.op = "ActivationFn.call" /\ layer.act_type = "relu6") =>
    /\ call.ok
    /\ Len(call.ret.data) = Len(call.inputs.data)
    /\ \A i \in 1..Len(call.inputs.data) :
         LET x == call.inputs.data[i] IN
           call.ret.data[i] = (IF x < 0 THEN 0 ELSE IF x > 6 THEN 6 ELSE x)

WitC6_Example ==
  /\ call.op = "ActivationFn.call"
  /\ layer.act_type = "relu6"
  /\ call.inputs.data = <<-2, 3, 9>>
  /\ call.ret.data = <<0, 3, 6>>

\* C7: a call changes none of the fields set at construction, and calling
\* again with the same arguments returns the same result.
ThmC7_CallsKeepFields ==
  [][ (call'.op # "none") =>
        /\ layer' = layer
        /\ (call.op = call'.op /\ call.inputs = call'.inputs
              /\ (call.op = "DropConnect.call" => call.u = call'.u))
             => call'.ret = call.ret ]_vars

WitC7_BatchNormActCalled ==
  /\ call.op = "BatchNormAct.call"
  /\ call.ok
  /\ layer.class = "BatchNormAct"
  /\ layer.training = ctor.is_training_bn

\* C8: BatchNormAct.call first applies the collaborator to the input with the
\* training flag given at construction, then applies the held ActivationFn,
\* built from the same act_type, to that result, and returns it.
ThmC8_NormalizeThenActivate ==
  call.op = "BatchNormAct.call" =>
    /\ call.ok
    /\ Len(call.trace) = 2
    /\ call.trace[1].callee = "self.layer.apply"
    /\ call.trace[1].target = layer.layer
    /\ call.trace[1].inputs = call.inputs
    /\ call.trace[1].training = ctor.is_training_bn
    /\ call.trace[2].callee = "self.act.call"
    /\ call.trace[2].target.act_type = ctor.act_type
    /\ call.trace[2].inputs = call.trace[1].result
    /\ call.ret = call.trace[2].result
    /\ call.ret = [kind |-> "activated",
                   act |-> SelectAct(ctor.act_type),
                   of |-> [kind |-> "normalized",
                           by |-> layer.layer,
                           training |-> ctor.is_training_bn,
                           of |-> call.inputs]]

WitC8_InferenceCall ==
  /\ call.op = "BatchNormAct.call"
  /\ ~ctor.is_training_bn
  /\ ctor.act_type = "swish"
  /\ Len(call.trace) = 2
  /\ call.trace[1].training = FALSE

\* C9: BatchNormAct's constructor raises ActivationFn's ValueError for every
\* act_type outside the four supported tags, None included, whatever the
\* other arguments, and leaves no object; it succeeds for the four tags.
ThmC9_BadTagFailsBatchNormAct ==
  ctor.class = "BatchNormAct" =>
    IF ctor.act_type \in Supported
      THEN layer.class = "BatchNormAct" /\ raised = NoExc
      ELSE /\ layer = NoLayer
           /\ call = NoCall
           /\ raised = [type |-> "ValueError",
                        msg |-> <<"Unsupported act_type ", Format(ctor.act_type)>>]

WitC9_NoneRejected ==
  /\ ctor.class = "BatchNormAct"
  /\ ctor.act_type = None
  /\ ctor.is_training_bn
  /\ ctor.use_tpu
  /\ layer = NoLayer
  /\ raised.type = "ValueError"

\* C10: the channel axis is 1 for 'channels_first' and 3 for 'channels_last',
\* and it is the axis the collaborator receives on either path.
ThmC10_AxisFromDataFormat ==
  layer.class = "BatchNormAct" =>
    /\ layer.axis = (IF ctor.data_format = "channels_first" THEN 1 ELSE 3)
    /\ layer.layer.kwargs.axis = layer.axis

WitC10_ChannelsFirstOnTpu ==
  /\ layer.class = "BatchNormAct"
  /\ ctor.data_format = "channels_first"
  /\ layer.layer.class = "TpuBatchNormalization"
  /\ layer.layer.kwargs.axis = 1

====
